---- MODULE Spec2Model ----
(***************************************************************************)
(* go-apt-client: the repository configuration model (repos.go, held in    *)
(* src/Makefile from line 24 on) and the package operations (src/apt.go).  *)
(*                                                                         *)
(* Go strings are modelled as sequences of one-character strings, so that  *)
(* the regular expression, the scanner and the file offsets act on bytes.  *)
(* A nil pointer / absent value is the empty sequence <<>>, a present      *)
(* value v is the one-element sequence <<v>>.                              *)
(***************************************************************************)
EXTENDS Integers, Sequences, FiniteSets, TLC

VARIABLES
    codec,      \* the parse/render chain of one line or one Repository
    fs,         \* the APT config folder: sources.list and sources.list.d
    proc,       \* the AddRepository calls in progress, one per caller
    parsed,     \* the result of a direct ParseAPTConfigFolder call
    dpkg,       \* parseDpkgQueryOutput: its input and its result
    ops,        \* Upgrade / Remove / Install / InstallDry: the last call
    execLog,    \* every external command run so far (exec.Command)
    deps,       \* GetDependencies: the tool output and the result
    hist        \* history of the AddRepository calls (read by the properties only)

vars == <<codec, fs, proc, parsed, dpkg, ops, execLog, deps, hist>>

----------------------------------------------------------------------------
(* Strings *)

SP == " "
HASH == "#"
LB == "["
RB == "]"
NL == "\n"
TAB == "\t"
CR == "\r"

Drop(s, n) == SubSeq(s, n + 1, Len(s))
Take(s, n) == SubSeq(s, 1, n)
HasPrefix(s, p) == Len(s) >= Len(p) /\ Take(s, Len(p)) = p
HasSuffix(s, p) == Len(s) >= Len(p) /\ Drop(s, Len(s) - Len(p)) = p
SetMax(S) == CHOOSE x \in S : \A y \in S : y <= x

\* All sequences over alphabet A of length at most n.
Extend(S, A) == S \cup {Append(s, c) : s \in S, c \in A}
RECURSIVE StrsUpTo(_, _)
StrsUpTo(A, n) == IF n = 0 THEN {<<>>} ELSE Extend(StrsUpTo(A, n - 1), A)

RECURSIVE Concat(_)
Concat(ss) == IF ss = <<>> THEN <<>> ELSE Head(ss) \o Concat(Tail(ss))

\* unicode.IsSpace on the characters of the model's alphabets
IsSpaceChar(c) == c \in {SP, TAB, NL, CR}

\* strings.TrimSpace(s) != ""
TrimSpaceNonEmpty(s) == \E i \in 1..Len(s) : ~IsSpaceChar(s[i])

\* length of the longest prefix of s made of characters of In
RECURSIVE RunOf(_, _)
RunOf(s, In) ==
    IF s = <<>> \/ Head(s) \notin In THEN 0 ELSE 1 + RunOf(Tail(s), In)

\* length of the longest prefix of s made of characters outside Out
RECURSIVE RunNotOf(_, _)
RunNotOf(s, Out) ==
    IF s = <<>> \/ Head(s) \in Out THEN 0 ELSE 1 + RunNotOf(Tail(s), Out)

----------------------------------------------------------------------------
(* Repository, Equals, Contains *)

Repository(en, src, opts, uri, dist, comps, comment) ==
    [Enabled |-> en, SourceRepo |-> src, Options |-> opts, URI |-> uri,
     Distribution |-> dist, Components |-> comps, Comment |-> comment]

EqualsButOptions(r, repo) ==
    /\ r.Components = repo.Components /\ r.Distribution = repo.Distribution
    /\ r.URI = repo.URI /\ r.SourceRepo = repo.SourceRepo

Equals(r, repo) ==
    IF r.Components # repo.Components THEN FALSE
    ELSE IF r.Distribution # repo.Distribution THEN FALSE
    ELSE IF r.URI # repo.URI THEN FALSE
    ELSE IF r.SourceRepo # repo.SourceRepo THEN FALSE
    ELSE IF r.Options # repo.Options THEN FALSE
    ELSE TRUE

Contains(list, repo) == \E i \in 1..Len(list) : Equals(repo, list[i])

----------------------------------------------------------------------------
(* APTConfigLine *)

DEB == <<"d", "e", "b">>
DEBSRC == <<"d", "e", "b", "-", "s", "r", "c">>
HASHSP == <<HASH, SP>>

APTConfigLine(r) ==
    (IF ~r.Enabled THEN HASHSP ELSE <<>>)
    \o (IF r.SourceRepo THEN DEBSRC \o <<SP>> ELSE DEB \o <<SP>>)
    \o (IF TrimSpaceNonEmpty(r.Options) THEN <<LB>> \o r.Options \o <<RB>> ELSE <<>>)
    \o r.URI \o <<SP>> \o r.Distribution \o <<SP>> \o r.Components
    \o (IF TrimSpaceNonEmpty(r.Comment) THEN <<SP, HASH, SP>> \o r.Comment ELSE <<>>)

----------------------------------------------------------------------------
\* aptConfigLineRegexp and parseAPTConfigLine. The expression is, with ANY
\* for a greedy run of characters other than newline:
\*   ^ [# ]? {deb|deb-src} [ "[" ANY "]" ]? SP token SP token SP components
\*     [ SP+ "#" SP* ANY ]? $
\* where a token is one or more non-spaces and the components are one or more
\* characters other than "#" and newline. Go's regexp is leftmost-first: an
\* optional group is tried present before absent, an alternation left to
\* right, a greedy repetition longest first. Each Match operator returns <<>>
\* (no match) or <<captures>>.

\* the comment group, SP+ "#" SP* ANY $, on y, whose first sp characters are
\* its leading spaces: <<comment>> or <<>>
StripSpacesKept(s) == s
StripSpaces(s) == Drop(s, RunOf(s, {SP}))
NoNewline(s) == \A i \in 1..Len(s) : s[i] # NL
CommentAfter(y, sp) ==
    IF sp >= 1 /\ Len(y) > sp /\ y[sp + 1] = HASH /\ NoNewline(Drop(y, sp + 1))
    THEN <<StripSpaces(Drop(y, sp + 1))>>
    ELSE <<>>
MatchCommentGroup(y) == CommentAfter(y, RunOf(y, {SP}))

\* the optional comment group then $: the group is tried present, then
\* absent (the text must then end, and the capture is empty)
CommentOrEnd(y) == IF y = <<>> THEN << <<>> >> ELSE MatchCommentGroup(y)

\* components, then the optional comment group, then $, on x: the components
\* are tried longest first (j is their length).
ComponentsAt(x, j) ==
    <<[Components |-> Take(x, j), Comment |-> CommentOrEnd(Drop(x, j))[1]]>>
LongestComponents(x, lens) ==
    IF lens = {} THEN <<>> ELSE ComponentsAt(x, SetMax(lens))
MatchComponents(x) ==
    LongestComponents(x, {j \in 1..RunNotOf(x, {HASH, NL}) :
                             CommentOrEnd(Drop(x, j)) # <<>>})

\* a token followed by a space, on a: <<[tok, rest]>> or <<>>. A token is a
\* maximal run of non-spaces: a shorter one would have to be followed by a
\* space.
TokenOfLen(a, n) ==
    IF n = 0 \/ Len(a) <= n THEN <<>>
    ELSE <<[tok |-> Take(a, n), rest |-> Drop(a, n + 1)]>>
Token(a) == TokenOfLen(a, RunNotOf(a, {SP}))

\* SP token SP token SP, then MatchComponents, on x: the text after the
\* options.
FieldsOf(uri, dist, m) ==
    IF m = <<>> THEN <<>>
    ELSE <<[URI |-> uri, Distribution |-> dist,
            Components |-> m[1].Components, Comment |-> m[1].Comment]>>
AfterDistribution(uri, t2) ==
    IF t2 = <<>> THEN <<>> ELSE FieldsOf(uri, t2[1].tok, MatchComponents(t2[1].rest))
AfterURI(t1) ==
    IF t1 = <<>> THEN <<>> ELSE AfterDistribution(t1[1].tok, Token(t1[1].rest))
MatchFields(x) ==
    IF x = <<>> \/ x[1] # SP THEN <<>> ELSE AfterURI(Token(Drop(x, 1)))

\* the optional options group, then MatchFields, on t: the text after deb or
\* deb-src. The group is tried present first, its ANY longest first (k is the
\* position of the closing bracket), then absent (k = 0).
OptionsOf(opts, m) ==
    IF m = <<>> THEN <<>> ELSE <<[Options |-> opts, rest |-> m[1]]>>
OptionsAt(t, k) ==
    OptionsOf(IF k = 0 THEN <<>> ELSE SubSeq(t, 3, k - 1), MatchFields(Drop(t, k)))
LastClose(closes) == IF closes = {} THEN 0 ELSE SetMax(closes)
MatchOptions(t) ==
    OptionsAt(t, LastClose({k \in 3..Len(t) :
                               /\ t[1] = SP /\ t[2] = LB /\ t[k] = RB
                               /\ NoNewline(SubSeq(t, 3, k - 1))
                               /\ MatchFields(Drop(t, k)) # <<>>}))

\* deb or deb-src, then MatchOptions, on a: deb is tried before deb-src.
KindOf(kind, m) == IF m = <<>> THEN <<>> ELSE <<[kind |-> kind, tail |-> m[1]]>>
FirstMatch(m1, m2) == IF m1 # <<>> THEN m1 ELSE m2
MatchAs(a, kind) ==
    IF HasPrefix(a, kind) THEN KindOf(kind, MatchOptions(Drop(a, Len(kind)))) ELSE <<>>
MatchKind(a) == FirstMatch(MatchAs(a, DEB), MatchAs(a, DEBSRC))

\* the whole expression: the captures of the first match, or <<>>; the
\* leading "# " is tried present, then absent
PrefixOf(f1, m) == IF m = <<>> THEN <<>> ELSE <<[f1 |-> f1, m |-> m[1]]>>
MatchPrefixed(line) ==
    IF HasPrefix(line, HASHSP) THEN PrefixOf(HASHSP, MatchKind(Drop(line, 2))) ELSE <<>>
aptConfigLineRegexp(line) ==
    FirstMatch(MatchPrefixed(line), PrefixOf(<<>>, MatchKind(line)))

RepositoryOfMatch(match) ==
    IF match = <<>> THEN <<>>
    ELSE <<Repository(match[1].f1 # HASHSP,
                      match[1].m.kind = DEBSRC,
                      match[1].m.tail.Options,
                      match[1].m.tail.rest.URI,
                      match[1].m.tail.rest.Distribution,
                      match[1].m.tail.rest.Components,
                      match[1].m.tail.rest.Comment)>>

parseAPTConfigLine(line) == RepositoryOfMatch(aptConfigLineRegexp(line))

----------------------------------------------------------------------------
(* The config folder, parseAPTConfigFile and ParseAPTConfigFolder.          *)
(* fs.sourcesList is the content of <folder>/sources.list (<<>> when the    *)
(* file is absent, <<data>> otherwise), fs.dirExists tells whether          *)
(* <folder>/sources.list.d exists and fs.dir maps the names of its files to *)
(* their contents.                                                          *)

\* the byte value of the characters file names are made of
Ord(c) ==
    CASE c = "." -> 46 [] c = "a" -> 97 [] c = "b" -> 98 [] c = "c" -> 99
      [] c = "d" -> 100 [] c = "e" -> 101 [] c = "f" -> 102 [] c = "g" -> 103
      [] c = "i" -> 105 [] c = "l" -> 108 [] c = "m" -> 109 [] c = "n" -> 110
      [] c = "o" -> 111 [] c = "s" -> 115 [] c = "t" -> 116 [] c = "v" -> 118
      [] c = "z" -> 122

\* a < b as Go compares strings
RECURSIVE StrLess(_, _)
StrLess(a, b) ==
    IF b = <<>> THEN FALSE
    ELSE IF a = <<>> THEN TRUE
    ELSE IF Head(a) # Head(b) THEN Ord(Head(a)) < Ord(Head(b))
    ELSE StrLess(Tail(a), Tail(b))

\* ioutil.ReadDir: the names of the directory, sorted by name
LeastName(names) == CHOOSE n \in names : \A m \in names \ {n} : StrLess(n, m)
RECURSIVE SortNames(_)
SortedFrom(names, least) == <<least>> \o SortNames(names \ {least})
SortNames(names) ==
    IF names = {} THEN <<>> ELSE SortedFrom(names, LeastName(names))
ReadDir(f) == SortNames(DOMAIN f.dir)

DOTLIST == <<".", "l", "i", "s", "t">>
MANAGED == <<"m", "a", "n", "a", "g", "e", "d">> \o DOTLIST

\* a path is the primary file or a name inside sources.list.d
SourcesListPath == [inDir |-> FALSE, name |-> <<>>]
DirPath(name) == [inDir |-> TRUE, name |-> name]

\* the sources of ParseAPTConfigFolder: sources.list, then every name of the
\* listing with the suffix ".list", in listing order
RECURSIVE ListSources(_)
ListSourcesNoFilter(list) ==
    IF list = <<>> THEN <<>> ELSE <<DirPath(Head(list))>> \o ListSources(Tail(list))
ListSources(list) ==
    IF list = <<>> THEN <<>>
    ELSE (IF HasSuffix(Head(list), DOTLIST) THEN <<DirPath(Head(list))>> ELSE <<>>)
         \o ListSources(Tail(list))
Sources(f) == <<SourcesListPath>> \o ListSources(ReadDir(f))

\* ioutil.ReadFile: <<data>>, or <<>> when the file does not exist
ReadFile(f, path) ==
    IF ~path.inDir THEN f.sourcesList
    ELSE IF f.dirExists /\ path.name \in DOMAIN f.dir THEN <<f.dir[path.name]>>
    ELSE <<>>

\* bufio.Scanner with ScanLines: the text between newlines, a trailing "\r"
\* dropped, a last line without newline kept when it is not empty
DropCR(l) == IF l # <<>> /\ l[Len(l)] = CR THEN Take(l, Len(l) - 1) ELSE l
RECURSIVE ScanLines(_)
ScanFrom(data, n) == <<DropCR(Take(data, n))>> \o ScanLines(Drop(data, n + 1))
ScanLines(data) ==
    IF data = <<>> THEN <<>> ELSE ScanFrom(data, RunNotOf(data, {NL}))

\* the loop of parseAPTConfigFile: the records of the lines that match
RECURSIVE ParseLines(_)
ParseLines(lines) ==
    IF lines = <<>> THEN <<>>
    ELSE parseAPTConfigLine(Head(lines)) \o ParseLines(Tail(lines))

\* parseAPTConfigFile: [err, list]
FileResult(read) ==
    IF read = <<>> THEN [err |-> TRUE, list |-> <<>>]
    ELSE [err |-> FALSE, list |-> ParseLines(ScanLines(read[1]))]
parseAPTConfigFile(f, path) == FileResult(ReadFile(f, path))

\* the second loop of ParseAPTConfigFolder: the first file that cannot be
\* read ends it with an error
RECURSIVE ParseSources(_, _)
AppendRepos(one, more) ==
    IF one.err \/ more.err THEN [err |-> TRUE, list |-> <<>>]
    ELSE [err |-> FALSE, list |-> one.list \o more.list]
ParseSources(f, sources) ==
    IF sources = <<>> THEN [err |-> FALSE, list |-> <<>>]
    ELSE AppendRepos(parseAPTConfigFile(f, Head(sources)),
                     ParseSources(f, Tail(sources)))

ParseAPTConfigFolder(f) ==
    IF ~f.dirExists THEN [err |-> TRUE, list |-> <<>>]
    ELSE ParseSources(f, Sources(f))

----------------------------------------------------------------------------
(* The values the variables of the other components keep in a specification *)
(* that does not exercise them.                                             *)

CodecOff == [stage |-> "off"]
FsOff == [exists |-> FALSE]
ProcOff == <<>>
ParsedOff == [done |-> FALSE]
DpkgOff == [stage |-> "off"]
OpsOff == [n |-> 0]
DepsOff == [stage |-> "off"]
HistOff == [calls |-> 0]

----------------------------------------------------------------------------
(* SpecCodec: parseAPTConfigLine and APTConfigLine applied in turn, from a  *)
(* config line (line -> rec -> line1 -> rec1 -> line2) or from a Repository *)
(* (rec -> line1 -> rec1 -> line2).                                         *)

MaxOptLen == 3
MaxCommentLen == 2

\* Field values of the Repository records the chain starts from.
RepoOptions == StrsUpTo({"o", SP, RB, HASH}, MaxOptLen)
RepoURIs == {<<"u">>, <<LB, "u", RB>>}
RepoDistributions == {<<"d">>}
RepoComponents == {<<"c">>, <<"c", SP, "e">>, <<"c", SP>>, <<"c", RB>>}
RepoComments ==
    StrsUpTo({"k", SP}, MaxCommentLen)
        \cup {<<HASH, "k">>, <<"k", RB, SP, "x", SP, "y", SP, "z">>}

CodecRepos ==
    {Repository(en, src, o, u, d, c, k) :
        en \in BOOLEAN, src \in {FALSE}, o \in RepoOptions, u \in RepoURIs,
        d \in RepoDistributions, c \in RepoComponents, k \in RepoComments}
    \cup
    {Repository(TRUE, TRUE, o, <<"u">>, <<"d">>, <<"c">>, k) :
        o \in {<<>>, <<"o">>}, k \in {<<>>, <<"k">>}}

\* Well-formed config lines: optional "# ", deb or deb-src, optional bracketed
\* options, URI, distribution, components, optional trailing comment.
LinePrefixes == {<<>>, HASHSP}
LineKinds == {DEB, DEBSRC}
LineOptions == {<<>>, <<SP, LB, "o", RB>>, <<SP, LB, "o", "=", "1", SP, "x", RB>>}
LineURIs == {<<"u">>, <<"u", "v">>}
LineDistributions == {<<"d">>}
LineComponents == {<<"c">>, <<"c", SP, "e">>}
LineComments == {<<>>, <<SP, HASH, SP, "k">>, <<SP, SP, HASH, "k", SP, "x">>}

CodecLines ==
    {p \o kd \o o \o <<SP>> \o u \o <<SP>> \o d \o <<SP>> \o c \o k :
        p \in LinePrefixes, kd \in LineKinds, o \in LineOptions, u \in LineURIs,
        d \in LineDistributions, c \in LineComponents, k \in LineComments}

CodecInit ==
    \/ \E l \in CodecLines :
           codec = [stage |-> "line", from |-> "line", line |-> l, rec |-> <<>>,
                    line1 |-> <<>>, rec1 |-> <<>>, line2 |-> <<>>]
    \/ \E r \in CodecRepos :
           codec = [stage |-> "parsed", from |-> "repo", line |-> <<>>, rec |-> <<r>>,
                    line1 |-> <<>>, rec1 |-> <<>>, line2 |-> <<>>]

CodecOnly == UNCHANGED <<fs, proc, parsed, dpkg, ops, execLog, deps, hist>>

ParseLine ==
    /\ codec.stage = "line"
    /\ codec' = [codec EXCEPT !.stage = "parsed",
                              !.rec = parseAPTConfigLine(codec.line)]
    /\ CodecOnly

RenderRepo ==
    /\ codec.stage = "parsed"
    /\ codec.rec # <<>>
    /\ codec' = [codec EXCEPT !.stage = "rendered",
                              !.line1 = APTConfigLine(codec.rec[1])]
    /\ CodecOnly

ReparseLine ==
    /\ codec.stage = "rendered"
    /\ codec' = [codec EXCEPT !.stage = "reparsed",
                              !.rec1 = parseAPTConfigLine(codec.line1)]
    /\ CodecOnly

RerenderRepo ==
    /\ codec.stage = "reparsed"
    /\ codec.rec1 # <<>>
    /\ codec' = [codec EXCEPT !.stage = "rerendered",
                              !.line2 = APTConfigLine(codec.rec1[1])]
    /\ CodecOnly

InitCodec ==
    /\ CodecInit
    /\ fs = FsOff /\ proc = ProcOff /\ parsed = ParsedOff /\ dpkg = DpkgOff
    /\ ops = OpsOff /\ execLog = <<>> /\ deps = DepsOff /\ hist = HistOff

NextCodec == ParseLine \/ RenderRepo \/ ReparseLine \/ RerenderRepo

SpecCodec == InitCodec /\ [][NextCodec]_vars

\* the five fields Equals compares, compared directly
SameFiveFields(a, b) ==
    /\ a.URI = b.URI /\ a.Distribution = b.Distribution
    /\ a.Components = b.Components /\ a.SourceRepo = b.SourceRepo
    /\ a.Options = b.Options

HasChar(s, c) == \E i \in 1..Len(s) : s[i] = c

\* C2 as stated: every well-formed line, parsed, rendered and parsed again,
\* gives a record with the URI, Distribution, Components, SourceRepo and
\* Options of the first parse.
C2_RoundTripKeepsFields ==
    (codec.stage \in {"reparsed", "rerendered"} /\ codec.from = "line")
        => /\ codec.rec # <<>>
           /\ codec.rec1 # <<>>
           /\ SameFiveFields(codec.rec1[1], codec.rec[1])

\* The records C8 speaks of: URI, Distribution and Components non-empty, the
\* two tokens without a space and the components without "#"; Enabled,
\* SourceRepo, Options and Comment are free.
C8_RequiredFields(r) ==
    /\ r.URI # <<>> /\ ~HasChar(r.URI, SP)
    /\ r.Distribution # <<>> /\ ~HasChar(r.Distribution, SP)
    /\ r.Components # <<>> /\ ~HasChar(r.Components, HASH)

\* no field holds "[" or "]"
C8_NoBracket(r) ==
    \A f \in {r.Options, r.URI, r.Distribution, r.Components, r.Comment} :
        ~HasChar(f, LB) /\ ~HasChar(f, RB)

C8_Stable ==
    /\ codec.stage \in {"reparsed", "rerendered"} => codec.rec1 # <<>>
    /\ codec.stage = "rerendered" => codec.line2 = codec.line1

C8_Unambiguous(r) ==
    /\ C8_RequiredFields(r)
    /\ ~TrimSpaceNonEmpty(r.Options) \/ ~HasChar(r.Options, SP)
    /\ ~TrimSpaceNonEmpty(r.Comment) \/ r.Comment[1] # SP
    /\ ~HasChar(r.URI, RB) /\ ~HasChar(r.Distribution, RB)
    /\ ~HasChar(r.Components, RB) /\ ~HasChar(r.Comment, RB)

----------------------------------------------------------------------------
(* SpecParse: one direct call of ParseAPTConfigFolder on a folder.          *)

\* file contents: records, a disabled record with a comment, lines that are
\* no record, an empty line, a "\r\n" line end, a last line without newline
TextA == <<"d", "e", "b", SP, "u", SP, "d", SP, "c", NL,
           HASH, SP, "d", "e", "b", SP, "v", SP, "d", SP, "c", SP, HASH, SP, "k", NL>>
TextB == <<"x", NL,
           "d", "e", "b", "-", "s", "r", "c", SP, "u", SP, "e", SP, "c", CR, NL,
           NL,
           "d", "e", "b", SP, "v", SP, "e", SP, "c">>
TextC == <<HASH, SP, "n", "o", NL, "d", "e", "b", SP, "v", "v", SP, "d", SP, "c", SP, "e", NL>>

NameA == <<"a">> \o DOTLIST
NameConf == <<"b", ".", "c", "o", "n", "f">>
NameDot == DOTLIST
NameOff == <<"z">> \o DOTLIST \o <<".", "o", "f", "f">>

ParseNames == {NameA, NameConf, NameDot, NameOff, MANAGED}
ParseTexts == {TextA, TextB}

ParseFolders ==
    {[sourcesList |-> sl, dirExists |-> TRUE, dir |-> d] :
        sl \in {<<>>, << <<>> >>, <<TextC>>, <<TextB>>},
        d \in UNION {[names -> ParseTexts] : names \in SUBSET ParseNames}}
    \cup {[sourcesList |-> <<TextC>>, dirExists |-> FALSE, dir |-> <<>>]}

CallParseAPTConfigFolder ==
    /\ ~parsed.done
    /\ parsed' = [done |-> TRUE, result |-> ParseAPTConfigFolder(fs)]
    /\ UNCHANGED <<codec, fs, proc, dpkg, ops, execLog, deps, hist>>

InitParse ==
    /\ fs \in ParseFolders
    /\ parsed = ParsedOff
    /\ codec = CodecOff /\ proc = ProcOff /\ dpkg = DpkgOff
    /\ ops = OpsOff /\ execLog = <<>> /\ deps = DepsOff /\ hist = HistOff

NextParse == CallParseAPTConfigFolder

SpecParse == InitParse /\ [][NextParse]_vars

\* the records of one file, by position: the k-th record is the parse of the
\* k-th line that matches the grammar
C6_IsRecord(l) == parseAPTConfigLine(l) # <<>>
C6_Matching(data) == SelectSeq(ScanLines(data), C6_IsRecord)
C6_Records(data) ==
    [k \in 1..Len(C6_Matching(data)) |-> parseAPTConfigLine(C6_Matching(data)[k])[1]]
C6_EndsInDotList(name) ==
    Len(name) >= 5 /\ SubSeq(name, Len(name) - 4, Len(name)) = <<".", "l", "i", "s", "t">>
\* the records of the first n names of the listing
RECURSIVE C6_OfListing(_, _, _)
C6_OfListing(f, listing, n) ==
    IF n = 0 THEN <<>>
    ELSE C6_OfListing(f, listing, n - 1)
         \o (IF C6_EndsInDotList(listing[n]) THEN C6_Records(f.dir[listing[n]]) ELSE <<>>)
C6_Expected(f) ==
    C6_Records(f.sourcesList[1]) \o C6_OfListing(f, ReadDir(f), Len(ReadDir(f)))

\* C6: a successful ParseAPTConfigFolder returns the records of sources.list,
\* then those of each file of sources.list.d whose name ends in ".list", file
\* by file in listing order and line by line; other files and lines that are
\* no record contribute nothing.
C6_FolderOrder ==
    (parsed.done /\ ~parsed.result.err) => parsed.result.list = C6_Expected(fs)

\* a folder with records in sources.list, in two ".list" files of different
\* content and in a file of another name, parsed
C6_Witness ==
    /\ parsed.done /\ ~parsed.result.err
    /\ fs.sourcesList = <<TextC>>
    /\ DOMAIN fs.dir = {NameA, NameConf, MANAGED, NameOff}
    /\ fs.dir[NameA] = TextB /\ fs.dir[MANAGED] = TextA /\ fs.dir[NameConf] = TextA
    /\ Len(parsed.result.list) = 5
    /\ parsed.result.list[1].URI = <<"v", "v">>
    /\ parsed.result.list[2].SourceRepo
    /\ parsed.result.list[5].Comment = <<"k">>

----------------------------------------------------------------------------
(* SpecFolder: AddRepository, called by two callers on one folder. The call *)
(* takes no lock, so its system calls interleave with the other caller's:   *)
(* reading the directory, reading the files, opening managed.list for       *)
(* append, opening it with O_CREATE|O_WRONLY when it does not exist, and    *)
(* the one write. I/O errors other than a missing file or directory are not *)
(* modelled.                                                                *)

MaxCalls == 2

Procs == {1, 2}

\* the repositories the callers add
RepoPlain == Repository(TRUE, FALSE, <<>>, <<"u">>, <<"d">>, <<"c">>, <<>>)
RepoDisabled == Repository(FALSE, FALSE, <<>>, <<"u">>, <<"d">>, <<"c">>, <<"k">>)
RepoSrc == Repository(TRUE, TRUE, <<>>, <<"u">>, <<"d">>, <<"c">>, <<>>)
RepoOpts == Repository(TRUE, FALSE, <<"o">>, <<"u">>, <<"d">>, <<"c">>, <<>>)
RepoLong == Repository(TRUE, FALSE, <<>>, <<"v", "v">>, <<"d">>, <<"c">>, <<>>)
RepoPool == {RepoPlain, RepoDisabled, RepoSrc, RepoOpts, RepoLong}

\* contents of the files of the folder before the first call
TextPlainOff == <<HASH, SP, "d", "e", "b", SP, "u", SP, "d", SP, "c", SP, HASH, SP, "x", NL,
                  "n", "o", NL>>
TextNear == <<"d", "e", "b", "-", "s", "r", "c", SP, "u", SP, "d", SP, "c", NL,
              "d", "e", "b", SP, "u", SP, "e", SP, "c", NL,
              "d", "e", "b", SP, "u", SP, "d", SP, "c", SP, "e", NL>>
TextLong == <<"d", "e", "b", SP, "v", "v", SP, "d", SP, "c", NL>>
TextOpts == <<"d", "e", "b", SP, LB, "o", RB, SP, "u", SP, "d", SP, "c", NL>>
TextCut == <<"d", "e", "b", SP, "u", SP, "e", SP, "c">>

FolderDirs ==
    {d \in UNION {[names -> {TextNear, TextLong, TextOpts, TextCut, <<>>}] :
                     names \in SUBSET {NameA, NameConf, MANAGED}} :
        /\ NameA \in DOMAIN d => d[NameA] = TextNear
        /\ NameConf \in DOMAIN d => d[NameConf] = TextLong
        /\ MANAGED \in DOMAIN d => d[MANAGED] \in {<<>>, TextOpts, TextCut}}

AddFolders ==
    {[sourcesList |-> sl, dirExists |-> TRUE, dir |-> d] :
        sl \in {<<>>, << <<>> >>, <<TextPlainOff>>}, d \in FolderDirs}
    \cup {[sourcesList |-> << <<>> >>, dirExists |-> FALSE, dir |-> <<>>]}

\* managed.list as the properties see it: <<>> when absent
ManagedOf(f) == IF f.dirExists /\ MANAGED \in DOMAIN f.dir THEN f.dir[MANAGED] ELSE <<>>

ProcIdle ==
    [pc |-> "idle", repo |-> <<>>, sources |-> <<>>, append |-> FALSE,
     offset |-> 0, ret |-> ""]

InCall(p) == proc[p].pc \notin {"idle", "done"}

FolderOnly == UNCHANGED <<codec, parsed, dpkg, ops, execLog, deps>>

\* AddRepository(repo, folder) is called
Call(p, r) ==
    /\ proc[p].pc = "idle"
    /\ hist.calls < MaxCalls
    /\ proc' = [proc EXCEPT ![p] = [ProcIdle EXCEPT !.pc = "readdir", !.repo = <<r>>]]
    /\ hist' = [hist EXCEPT
                   !.calls = @ + 1,
                   !.last = p,
                   !.before = [@ EXCEPT ![p] = fs],
                   !.alone = [q \in Procs |->
                                 IF q = p THEN \A o \in Procs \ {p} : ~InCall(o)
                                 ELSE IF InCall(q) THEN FALSE ELSE @[q]]]
    /\ UNCHANGED fs
    /\ FolderOnly

\* ParseAPTConfigFolder, first loop: ioutil.ReadDir and the list of sources
ListDir(p) ==
    /\ proc[p].pc = "readdir"
    /\ proc' = [proc EXCEPT ![p] =
                   IF ~fs.dirExists
                   THEN [@ EXCEPT !.pc = "done", !.ret = "parse-error"]
                   ELSE [@ EXCEPT !.pc = "readfiles", !.sources = Sources(fs)]]
    /\ UNCHANGED <<fs, hist>>
    /\ FolderOnly

\* ParseAPTConfigFolder, second loop, and the duplicate check
Checked(pr, res) ==
    IF res.err THEN [pr EXCEPT !.pc = "done", !.ret = "parse-error"]
    ELSE IF Contains(res.list, pr.repo[1])
         THEN [pr EXCEPT !.pc = "done", !.ret = "duplicate"]
         ELSE [pr EXCEPT !.pc = "open"]
ReadSources(p) ==
    /\ proc[p].pc = "readfiles"
    /\ proc' = [proc EXCEPT ![p] = Checked(@, ParseSources(fs, @.sources))]
    /\ UNCHANGED <<fs, hist>>
    /\ FolderOnly

\* os.OpenFile(managedPath, O_APPEND|O_WRONLY)
OpenAppend(p) ==
    /\ proc[p].pc = "open"
    /\ proc' = [proc EXCEPT ![p] =
                   IF MANAGED \in DOMAIN fs.dir
                   THEN [@ EXCEPT !.pc = "write", !.append = TRUE]
                   ELSE [@ EXCEPT !.pc = "create"]]
    /\ UNCHANGED <<fs, hist>>
    /\ FolderOnly

\* os.OpenFile(managedPath, O_CREATE|O_WRONLY): the file is created when it
\* is still absent, opened as it is otherwise; the handle starts at offset 0
\* and is not in append mode
Created(f) ==
    IF MANAGED \in DOMAIN f.dir THEN f
    ELSE [f EXCEPT !.dir = [n \in DOMAIN f.dir \cup {MANAGED} |->
                               IF n = MANAGED THEN <<>> ELSE f.dir[n]]]
OpenCreate(p) ==
    /\ proc[p].pc = "create"
    /\ fs' = Created(fs)
    /\ proc' = [proc EXCEPT ![p] = [@ EXCEPT !.pc = "write", !.append = FALSE, !.offset = 0]]
    /\ UNCHANGED hist
    /\ FolderOnly

\* f.WriteString(repo.APTConfigLine() + "\n") and the return: an append-mode
\* handle writes at the end of the file, another one at its offset
WriteAt(data, off, bytes) == Take(data, off) \o bytes \o Drop(data, off + Len(bytes))
WrittenAtOffset(data, pr, bytes) == WriteAt(data, pr.offset, bytes)
Written(data, pr, bytes) ==
    IF pr.append THEN data \o bytes ELSE WriteAt(data, pr.offset, bytes)
RepoLine(pr) == APTConfigLine(pr.repo[1]) \o <<NL>>
WriteString(p) ==
    /\ proc[p].pc = "write"
    /\ MANAGED \in DOMAIN fs.dir
    /\ fs' = [fs EXCEPT !.dir[MANAGED] = Written(@, proc[p], RepoLine(proc[p]))]
    /\ proc' = [proc EXCEPT ![p] = [@ EXCEPT !.pc = "done", !.ret = "ok"]]
    /\ hist' = [hist EXCEPT !.written = Append(@, RepoLine(proc[p])),
                            !.added = Append(@, proc[p].repo[1]),
                            !.allAppend = @ /\ proc[p].append]
    /\ FolderOnly

\* the caller is done with the result and may call again
Return(p) ==
    /\ proc[p].pc = "done"
    /\ hist.calls < MaxCalls
    /\ proc' = [proc EXCEPT ![p] = ProcIdle]
    /\ UNCHANGED <<fs, hist>>
    /\ FolderOnly

InitFolder ==
    /\ fs \in AddFolders
    /\ proc = [p \in Procs |-> ProcIdle]
    /\ hist = [calls |-> 0, last |-> 0, initial |-> ManagedOf(fs), written |-> <<>>,
               added |-> <<>>, allAppend |-> TRUE, before |-> [p \in Procs |-> fs], alone |-> [p \in Procs |-> TRUE]]
    /\ codec = CodecOff /\ parsed = ParsedOff /\ dpkg = DpkgOff
    /\ ops = OpsOff /\ execLog = <<>> /\ deps = DepsOff

NextFolder ==
    \E p \in Procs :
        \/ \E r \in RepoPool : Call(p, r)
        \/ ListDir(p)
        \/ ReadSources(p)
        \/ OpenAppend(p)
        \/ OpenCreate(p)
        \/ WriteString(p)
        \/ Return(p)

SpecFolder == InitFolder /\ [][NextFolder]_vars

\* caller p has returned from a call that overlapped no other call, and no
\* call was started since
ReturnedAlone(p) == proc[p].pc = "done" /\ hist.alone[p] /\ hist.last = p

HasEqual(list, r) == \E i \in 1..Len(list) : SameFiveFields(list[i], r)

\* the files other than managed.list are as they were
C1_OthersKept(f, g) ==
    /\ f.sourcesList = g.sourcesList /\ f.dirExists = g.dirExists
    /\ DOMAIN f.dir \ {MANAGED} = DOMAIN g.dir \ {MANAGED}
    /\ \A n \in DOMAIN f.dir \ {MANAGED} : f.dir[n] = g.dir[n]

C1_Outcome(p, before, parse, r) ==
    IF parse.err THEN proc[p].ret = "parse-error" /\ fs = before
    ELSE IF HasEqual(parse.list, r)
         THEN proc[p].ret = "duplicate" /\ fs = before
         ELSE /\ proc[p].ret = "ok"
              /\ ManagedOf(fs) = ManagedOf(before) \o APTConfigLine(r) \o <<NL>>
              /\ C1_OthersKept(fs, before)

\* C1: a call of AddRepository(repo, folder) that overlaps no other call
\* returns the "already configured" error and leaves the folder as it was
\* when the list parsed from the folder has an entry with the URI,
\* Distribution, Components, SourceRepo and Options of repo (whatever its
\* Enabled and Comment); otherwise it succeeds and managed.list has grown by
\* exactly the rendered line of repo and a newline.
C1_DuplicateOrAppend ==
    \A p \in Procs :
        ReturnedAlone(p) =>
            C1_Outcome(p, hist.before[p], ParseAPTConfigFolder(hist.before[p]),
                       proc[p].repo[1])

\* one caller has added a repository to a folder that held, in managed.list,
\* the same repository with other Options; the other caller is then refused
\* the same repository, disabled and with a comment
C1_Witness ==
    /\ proc[1].pc = "done" /\ proc[1].ret = "ok" /\ proc[1].repo = <<RepoPlain>>
    /\ hist.before[1].sourcesList = << <<>> >>
    /\ ManagedOf(hist.before[1]) = TextOpts
    /\ NameA \in DOMAIN fs.dir /\ NameConf \in DOMAIN fs.dir
    /\ ReturnedAlone(2) /\ proc[2].ret = "duplicate" /\ proc[2].repo = <<RepoDisabled>>
    /\ ManagedOf(fs) = TextOpts \o APTConfigLine(RepoPlain) \o <<NL>>

\* two entries of the list have the same five fields
HasTwoEqual(list) ==
    \E i, j \in 1..Len(list) : i < j /\ SameFiveFields(list[i], list[j])

BothSucceeded ==
    \A p \in Procs : proc[p].pc = "done" /\ proc[p].ret = "ok"

\* managed.list was absent or empty before the first call, or ended in a
\* newline
StartsNewLine(data) == data = <<>> \/ data[Len(data)] = NL

\* C4: no lock orders the calls. When two calls with Equal repositories have
\* both passed the duplicate check and returned success, every write having
\* gone through an append-mode handle to a managed.list of complete lines,
\* the folder parses to two Equal entries.
C4_BothAppendDuplicates ==
    (BothSucceeded /\ hist.allAppend /\ StartsNewLine(hist.initial)
        /\ SameFiveFields(proc[1].repo[1], proc[2].repo[1]))
        => HasTwoEqual(ParseAPTConfigFolder(fs).list)

\* the interleaving of C4: the folder held no entry Equal to the repository,
\* the two calls overlapped, both returned success, and the folder now holds
\* two
C4_Witness ==
    /\ BothSucceeded
    /\ ~hist.alone[1] /\ ~hist.alone[2]
    /\ proc[1].repo = <<RepoPlain>> /\ proc[2].repo = <<RepoDisabled>>
    /\ ~HasEqual(ParseAPTConfigFolder(hist.before[1]).list, RepoPlain)
    /\ ~HasEqual(ParseAPTConfigFolder(hist.before[2]).list, RepoPlain)
    /\ HasTwoEqual(ParseAPTConfigFolder(fs).list)
    /\ Len(hist.written) = 2

\* C9 as stated: in a run of calls that never overlap (on a folder whose
\* managed.list holds complete lines only), once AddRepository(r) has
\* returned success the folder parses to a list with an entry Equal to r (so
\* a later AddRepository(r) is refused), and no two lines are written for
\* Equal repositories.
C9_AddedIsFound ==
    ((\A q \in Procs : hist.alone[q]) /\ StartsNewLine(hist.initial)) =>
        /\ \A p \in Procs :
              (ReturnedAlone(p) /\ proc[p].ret = "ok") =>
                  HasEqual(ParseAPTConfigFolder(fs).list, proc[p].repo[1])
        /\ ~HasTwoEqual(hist.added)

\* C10 as stated: managed.list always holds what it held before the first
\* call followed by the complete lines of the calls that have written, in
\* write order.
C10_AppendOnly ==
    ManagedOf(fs) = hist.initial \o Concat(hist.written)

----------------------------------------------------------------------------
(* SpecDpkg: parseDpkgQueryOutput on the output of dpkg-query.              *)

\* strings.Split(s, sep) for a one-character separator
RECURSIVE Split(_, _)
SplitAt(s, sep, n) ==
    IF n = Len(s) THEN <<s>> ELSE <<Take(s, n)>> \o Split(Drop(s, n + 1), sep)
Split(s, sep) == SplitAt(s, sep, RunNotOf(s, {sep}))

\* strconv.Atoi: an optional sign, then one or more decimal digits (values
\* beyond the range of int, an error in Go, are longer than the model's
\* fields)
DecimalDigits == <<"0", "1", "2", "3", "4", "5", "6", "7", "8", "9">>
IsDigit(c) == \E i \in 1..Len(DecimalDigits) : DecimalDigits[i] = c
DigitValue(c) == (CHOOSE i \in 1..Len(DecimalDigits) : DecimalDigits[i] = c) - 1
RECURSIVE DigitsValue(_, _)
DigitsValue(s, acc) ==
    IF s = <<>> THEN acc ELSE DigitsValue(Tail(s), acc * 10 + DigitValue(Head(s)))
Unsigned(s) ==
    IF s # <<>> /\ \A i \in 1..Len(s) : IsDigit(s[i])
    THEN [err |-> FALSE, n |-> DigitsValue(s, 0)]
    ELSE [err |-> TRUE, n |-> 0]
Negated(r) == [r EXCEPT !.n = 0 - @]
Atoi(s) ==
    IF s # <<>> /\ s[1] = "-" THEN Negated(Unsigned(Tail(s)))
    ELSE IF s # <<>> /\ s[1] = "+" THEN Unsigned(Tail(s))
    ELSE Unsigned(s)

\* the body of the loop of parseDpkgQueryOutput: data[4] and data[5] are
\* indexed whatever the length of data, and an index out of range panics
SizeOf(conv) == IF conv.err THEN 0 ELSE conv.n
PackageOfFields(data) ==
    IF Len(data) < 6 THEN [panic |-> TRUE, pkgs |-> <<>>]
    ELSE [panic |-> FALSE,
          pkgs |-> <<[Name |-> data[1], Architecture |-> data[2], Status |-> data[3],
                      Version |-> data[4], InstalledSizeKB |-> SizeOf(Atoi(data[5])),
                      ShortDescription |-> data[6]]>>]

RECURSIVE DpkgLoop(_)
DpkgNext(one, more) ==
    IF one.panic \/ more.panic THEN [panic |-> TRUE, pkgs |-> <<>>]
    ELSE [panic |-> FALSE, pkgs |-> one.pkgs \o more.pkgs]
DpkgLoop(lines) ==
    IF lines = <<>> THEN [panic |-> FALSE, pkgs |-> <<>>]
    ELSE DpkgNext(PackageOfFields(Split(Head(lines), TAB)), DpkgLoop(Tail(lines)))

parseDpkgQueryOutput(out) == DpkgLoop(ScanLines(out))

MaxDpkgLines == 2

\* s[1] sep s[2] sep ... s[n]
RECURSIVE Join(_, _)
Join(ss, sep) ==
    IF ss = <<>> THEN <<>>
    ELSE IF Len(ss) = 1 THEN ss[1]
    ELSE ss[1] \o sep \o Join(Tail(ss), sep)

DpkgSizes == {<<>>, <<"7">>, <<"1", "0", "2">>, <<"x">>, <<"-", "3">>, <<"+", "7">>,
              <<"1", "x">>, <<"-">>}
DpkgLines ==
    {Join(<<n, <<"a", "l", "l">>, <<"o", "k">>, <<"1", ".", "0">>, sz, <<"d", SP, "x">>>>,
          <<TAB>>) : n \in {<<"p">>, <<"q">>}, sz \in DpkgSizes}
    \cup {Join(f, <<TAB>>) :
            f \in {<< <<>> >>, << <<"p">> >>,
                    << <<"p">>, <<"a">>, <<"o">>, <<"1">> >>,
                    << <<"p">>, <<"a">>, <<"o">>, <<"1">>, <<"7">> >>,
                    << <<"p">>, <<"a">>, <<"o">>, <<"1">>, <<"7">>, <<"d">>, <<"e">> >>}}
DpkgLineSeqs == UNION {[1..n -> DpkgLines] : n \in 0..MaxDpkgLines}
DpkgOutputs ==
    {Join(ls, <<NL>>) \o end : ls \in DpkgLineSeqs, end \in {<<>>, <<NL>>}}

CallParseDpkgQueryOutput ==
    /\ dpkg.stage = "input"
    /\ dpkg' = [dpkg EXCEPT !.stage = "done", !.result = parseDpkgQueryOutput(dpkg.out)]
    /\ UNCHANGED <<codec, fs, proc, parsed, ops, execLog, deps, hist>>

InitDpkg ==
    /\ \E out \in DpkgOutputs :
          dpkg = [stage |-> "input", out |-> out, result |-> [panic |-> FALSE, pkgs |-> <<>>]]
    /\ codec = CodecOff /\ fs = FsOff /\ proc = ProcOff /\ parsed = ParsedOff
    /\ ops = OpsOff /\ execLog = <<>> /\ deps = DepsOff /\ hist = HistOff

NextDpkg == CallParseDpkgQueryOutput

SpecDpkg == InitDpkg /\ [][NextDpkg]_vars

\* the i-th tab-separated field of a line, empty when the line has fewer
C3_Field(l, i) == IF Len(Split(l, TAB)) >= i THEN Split(l, TAB)[i] ELSE <<>>
C3_Numeric(s) ==
    \/ s # <<>> /\ \A i \in 1..Len(s) : IsDigit(s[i])
    \/ Len(s) > 1 /\ s[1] \in {"+", "-"} /\ \A i \in 2..Len(s) : IsDigit(s[i])
C3_RecordOfLine(pkg, l) ==
    /\ pkg.Name = C3_Field(l, 1) /\ pkg.Architecture = C3_Field(l, 2)
    /\ pkg.Status = C3_Field(l, 3) /\ pkg.Version = C3_Field(l, 4)
    /\ pkg.ShortDescription = C3_Field(l, 6)
    /\ ~C3_Numeric(C3_Field(l, 5)) => pkg.InstalledSizeKB = 0

\* C3 as stated: parseDpkgQueryOutput never fails; every input line yields
\* one Package, in input order, and a line whose installed-size field is
\* missing or not a number (a line of fewer than six fields too) yields a
\* Package with InstalledSizeKB = 0 and its other fields kept.
C3_NeverFails ==
    dpkg.stage = "done" =>
        /\ ~dpkg.result.panic
        /\ Len(dpkg.result.pkgs) = Len(ScanLines(dpkg.out))
        /\ \A i \in 1..Len(dpkg.result.pkgs) :
              C3_RecordOfLine(dpkg.result.pkgs[i], ScanLines(dpkg.out)[i])

----------------------------------------------------------------------------
(* SpecOps: Upgrade, Remove, Install and InstallDry. A *Package is <<>>     *)
(* (nil) or <<[Name |-> name]>>; the external tool answers any invocation   *)
(* with one of ToolReplies, which CombinedOutput hands back.                *)

MaxOps == 1
MaxPacks == 2

PackagePointers == {<<>>, <<[Name |-> ""]>>, <<[Name |-> "vim"]>>, <<[Name |-> "git"]>>}
PackLists == UNION {[1..n -> PackagePointers] : n \in 0..MaxPacks}
ToolReplies ==
    {[output |-> "Reading package lists... Done", err |-> ""],
     [output |-> "E: Unable to locate package", err |-> "exit status 100"]}

InvalidPackage == "Invalid package with empty Name"

\* the loop over packs: the first nil or unnamed package ends it
RECURSIVE AppendNames(_, _)
AppendNamesSkipping(args, packs) ==
    IF packs = <<>> THEN [invalid |-> FALSE, args |-> args]
    ELSE IF Head(packs) = <<>> \/ Head(packs)[1].Name = ""
         THEN AppendNames(args, Tail(packs))
         ELSE AppendNames(Append(args, Head(packs)[1].Name), Tail(packs))
AppendNames(args, packs) ==
    IF packs = <<>> THEN [invalid |-> FALSE, args |-> args]
    ELSE IF Head(packs) = <<>> \/ Head(packs)[1].Name = ""
         THEN [invalid |-> TRUE, args |-> args]
         ELSE AppendNames(Append(args, Head(packs)[1].Name), Tail(packs))

\* what a call returns: the error of the loop, or what CombinedOutput gives
Returned(errFn, built, reply) ==
    IF built.invalid
    THEN [output |-> "", err |-> <<errFn, InvalidPackage>>]
    ELSE [output |-> reply.output, err |-> <<reply.err>>]

\* exec.Command("apt-get", args...) followed by CombinedOutput
Executed(built) ==
    IF built.invalid THEN execLog
    ELSE Append(execLog, [cmd |-> "apt-get", args |-> built.args])

Called(fn, packs, reply, ret) ==
    [n |-> ops.n + 1, fn |-> fn, packs |-> packs, reply |-> reply,
     logBefore |-> Len(execLog), ret |-> ret]

OpsOnly == UNCHANGED <<codec, fs, proc, parsed, dpkg, deps, hist>>

Upgrade(packs, reply) ==
    /\ ops.n < MaxOps
    /\ ops' = Called("Upgrade", packs, reply,
                     Returned("apt.Upgrade", AppendNames(<<"upgrade", "-y">>, packs), reply))
    /\ execLog' = Executed(AppendNames(<<"upgrade", "-y">>, packs))
    /\ OpsOnly

Remove(packs, reply) ==
    /\ ops.n < MaxOps
    /\ ops' = Called("Remove", packs, reply,
                     Returned("apt.Remove", AppendNames(<<"remove", "-y">>, packs), reply))
    /\ execLog' = Executed(AppendNames(<<"remove", "-y">>, packs))
    /\ OpsOnly

Install(packs, reply) ==
    /\ ops.n < MaxOps
    /\ ops' = Called("Install", packs, reply,
                     Returned("apt.Install", AppendNames(<<"install", "-y">>, packs), reply))
    /\ execLog' = Executed(AppendNames(<<"install", "-y">>, packs))
    /\ OpsOnly

InstallDry(packs, reply) ==
    /\ ops.n < MaxOps
    /\ ops' = Called("InstallDry", packs, reply,
                     Returned("apt.Install",
                              AppendNames(<<"install", "-y", "--dry-run">>, packs), reply))
    /\ execLog' = Executed(AppendNames(<<"install", "-y", "--dry-run">>, packs))
    /\ OpsOnly

InitOps ==
    /\ ops = OpsOff
    /\ execLog = <<>>
    /\ codec = CodecOff /\ fs = FsOff /\ proc = ProcOff /\ parsed = ParsedOff
    /\ dpkg = DpkgOff /\ deps = DepsOff /\ hist = HistOff

NextOps ==
    \E packs \in PackLists, reply \in ToolReplies :
        \/ Upgrade(packs, reply)
        \/ Remove(packs, reply)
        \/ Install(packs, reply)
        \/ InstallDry(packs, reply)

SpecOps == InitOps /\ [][NextOps]_vars

C5_Invalid(packs) ==
    \E i \in 1..Len(packs) : packs[i] = <<>> \/ packs[i][1].Name = ""
C5_Names(packs) == [i \in 1..Len(packs) |-> packs[i][1].Name]
C5_LastArgs(n) == SubSeq(execLog[Len(execLog)].args,
                         Len(execLog[Len(execLog)].args) - n + 1,
                         Len(execLog[Len(execLog)].args))

\* C5: after a call of Upgrade, Remove, Install or InstallDry: when a package
\* of the list is nil or has an empty Name, the call has returned an "Invalid
\* package with empty Name" error and no command was run (valid packages
\* before the invalid one change nothing); otherwise exactly one apt-get
\* command was run, its arguments ending in the package names in the given
\* order, and the call has returned the output and error of that command.
C5_AllOrNothing ==
    ops.n > 0 =>
        IF C5_Invalid(ops.packs)
        THEN /\ ops.ret.err[Len(ops.ret.err)] = InvalidPackage
             /\ ops.ret.output = ""
             /\ Len(execLog) = ops.logBefore
        ELSE /\ Len(execLog) = ops.logBefore + 1
             /\ execLog[Len(execLog)].cmd = "apt-get"
             /\ C5_LastArgs(Len(ops.packs)) = C5_Names(ops.packs)
             /\ ops.ret = [output |-> ops.reply.output, err |-> <<ops.reply.err>>]

\* InstallDry, refused for its second package after a valid first one, has
\* run nothing and reports the error under Install's name
C5_Witness ==
    /\ ops.n > 0 /\ ops.fn = "InstallDry"
    /\ ops.packs = << <<[Name |-> "vim"]>>, <<>> >>
    /\ ops.ret.err = <<"apt.Install", InvalidPackage>>
    /\ Len(execLog) = ops.logBefore

----------------------------------------------------------------------------
(* SpecDeps: GetDependencies on the output of apt-cache depends. Names are  *)
(* strings of characters here, as the function splits them out of text.     *)

MaxDepLines == 3

\* slices.Reverse
Reverse(s) == [i \in 1..Len(s) |-> s[Len(s) + 1 - i]]

\* split[len(split)-1]; strings.Split never returns an empty slice
LastOf(split) == split[Len(split)]

\* the loop over the reversed lines, with depSeen and depList
RECURSIVE DepLoop(_, _, _, _)
DepStep(rest, name, depSeen, depList, depName) ==
    IF depName = <<>> \/ depName = name \/ depName \in depSeen
    THEN DepLoop(rest, name, depSeen, depList)
    ELSE DepLoop(rest, name, depSeen \cup {depName}, Append(depList, depName))
DepLoop(lines, name, depSeen, depList) ==
    IF lines = <<>> THEN depList
    ELSE DepStep(Tail(lines), name, depSeen, depList, LastOf(Split(Head(lines), SP)))

InvalidDepPackage == "apt.GetDependencies: Invalid package with empty Name"

DepArgs(pack) == <<"depends", "-i", "--recurse", pack[1].Name>>

DepPackages == {<<>>, <<[Name |-> <<>>]>>, <<[Name |-> <<"m">>]>>, <<[Name |-> <<"a">>]>>}
DepLines == {<<>>, <<"a">>, <<"b">>, <<"m">>, <<"x", SP, "a">>, <<SP, "b">>,
             <<"a", SP>>, <<"a", TAB, "b">>}
DepLineSeqs == UNION {[1..n -> DepLines] : n \in 1..MaxDepLines}
DepReplies ==
    {[out |-> Join(ls, <<NL>>), err |-> ""] : ls \in DepLineSeqs}
    \cup {[out |-> <<>>, err |-> "exit status 100"]}

\* pack == nil || pack.Name == ""
NilOrUnnamed(pack) == IF pack = <<>> THEN TRUE ELSE pack[1].Name = <<>>

DepsOnly == UNCHANGED <<codec, fs, proc, parsed, dpkg, ops, hist>>

\* the call refused before any command is run
GetDependenciesInvalid(pack) ==
    /\ deps.stage = "idle"
    /\ NilOrUnnamed(pack)
    /\ deps' = [stage |-> "done", pack |-> pack, out |-> <<>>,
                list |-> <<>>, err |-> InvalidDepPackage]
    /\ UNCHANGED execLog
    /\ DepsOnly

\* the command fails: its error is returned with a nil list
GetDependenciesFailed(pack, reply) ==
    /\ deps.stage = "idle"
    /\ ~NilOrUnnamed(pack)
    /\ reply.err # ""
    /\ deps' = [stage |-> "done", pack |-> pack, out |-> reply.out,
                list |-> <<>>, err |-> reply.err]
    /\ execLog' = Append(execLog, [cmd |-> "apt-cache", args |-> DepArgs(pack)])
    /\ DepsOnly

\* the command succeeds and its output is flattened
GetDependencies(pack, reply) ==
    /\ deps.stage = "idle"
    /\ ~NilOrUnnamed(pack)
    /\ reply.err = ""
    /\ deps' = [stage |-> "done", pack |-> pack, out |-> reply.out,
                list |-> DepLoop(Reverse(Split(reply.out, NL)), pack[1].Name, {}, <<>>),
                err |-> ""]
    /\ execLog' = Append(execLog, [cmd |-> "apt-cache", args |-> DepArgs(pack)])
    /\ DepsOnly

InitDeps ==
    /\ deps = [stage |-> "idle"]
    /\ execLog = <<>>
    /\ codec = CodecOff /\ fs = FsOff /\ proc = ProcOff /\ parsed = ParsedOff
    /\ dpkg = DpkgOff /\ ops = OpsOff /\ hist = HistOff

NextDeps ==
    \E pack \in DepPackages, reply \in DepReplies :
        \/ GetDependenciesInvalid(pack)
        \/ GetDependenciesFailed(pack, reply)
        \/ GetDependencies(pack, reply)

SpecDeps == InitDeps /\ [][NextDeps]_vars

C7_Whitespace == {SP, TAB}

\* the last whitespace-separated token of a line, empty when it has none
RECURSIVE C7_TrimRight(_)
C7_TrimRight(s) ==
    IF s # <<>> /\ s[Len(s)] \in C7_Whitespace THEN C7_TrimRight(Take(s, Len(s) - 1)) ELSE s
RECURSIVE C7_LastRun(_)
C7_LastRun(s) ==
    IF s = <<>> \/ s[Len(s)] \in C7_Whitespace THEN <<>>
    ELSE Append(C7_LastRun(Take(s, Len(s) - 1)), s[Len(s)])
C7_LastToken(line) == C7_LastRun(C7_TrimRight(line))

\* the tokens kept: not empty, not the queried name, first occurrence only
RECURSIVE C7_Keep(_, _, _)
C7_Keep(tokens, name, kept) ==
    IF tokens = <<>> THEN kept
    ELSE IF Head(tokens) = <<>> \/ Head(tokens) = name
            \/ \E i \in 1..Len(kept) : kept[i] = Head(tokens)
         THEN C7_Keep(Tail(tokens), name, kept)
         ELSE C7_Keep(Tail(tokens), name, Append(kept, Head(tokens)))
C7_Tokens(lines) == [i \in 1..Len(lines) |-> C7_LastToken(lines[Len(lines) + 1 - i])]

\* C7 as stated: when the command has succeeded, GetDependencies has returned
\* the last whitespace-separated token of each line of the output, the lines
\* taken last to first, without the empty names, the queried name and the
\* names already met.
C7_LastTokensReversed ==
    (deps.stage = "done" /\ deps.err = "") =>
        deps.list = C7_Keep(C7_Tokens(Split(deps.out, NL)), deps.pack[1].Name, <<>>)

====
